---- MODULE Spec2Model ----
(***************************************************************************)
(* AppV1Controller of picasso (src/picasso/api/controllers/apps.py): the   *)
(* five handlers list / create / get / update / delete over the local app  *)
(* registry (models.app.Apps) and the remote functions platform            *)
(* (config.functions_client).  Every handler is cut at its awaits: one     *)
(* action per awaited collaborator call, together with the synchronous     *)
(* code that follows it up to the next await or the return.                *)
(***************************************************************************)
EXTENDS Integers, Sequences, FiniteSets, TLC

VARIABLES
    apps,          \* the registry: the sequence of stored App records
    fn_apps,       \* the functions platform: app name -> remote app
    req,           \* per request slot: position and locals of its handler
    last_created   \* the create that returned 200 as the last finished request

vars == <<apps, fn_apps, req, last_created>>

---------------------------------------------------------------------------
(* Bounds of the model *)

\* most routes one remote app holds
MaxRoutes == 1

---------------------------------------------------------------------------
(* Inputs *)

Slots == {"r1", "r2"}

LongName == "customer-analytics-dashboard-service"

\* the (project_id, requested name) pairs that are tried: a short name, and a
\* name longer than the limit in two projects
Requests == {<<"p1", "billing">>, <<"p1", LongName>>, <<"p2", LongName>>}

NameLimit == 30

\* the name cut before the project is appended
DerivedName_CutFirst(name, project_id) ==
    (IF Len(name) > NameLimit THEN SubSeq(name, 1, NameLimit) ELSE name)
        \o "-" \o project_id

\* "{}-{}".format(data["app"]["name"], project_id)[:30]
DerivedName(name, project_id) ==
    LET full == name \o "-" \o project_id
    IN  IF Len(full) > NameLimit THEN SubSeq(full, 1, NameLimit) ELSE full

ProjectsOf(T) == {t[1] : t \in T}

\* the values of the {app} path parameter that are tried
AppNamesOf(T) == {DerivedName(t[2], t[1]) : t \in T}

AppNames == AppNamesOf(Requests)

NoBody == [none |-> TRUE]

\* a request body as it is sent: text that is JSON for `value`, or is not JSON
JsonBody(value) == [json |-> TRUE, value |-> value]

NotJson == [json |-> FALSE, value |-> NoBody]

\* request bodies of create: description is optional
CreateBodies(name) ==
    {[app |-> [name |-> name]], [app |-> [name |-> name, description |-> "custom"]]}

\* what is posted for `name`: the bodies above, a body without app.name, and
\* text that is not JSON
CreateRequests(name) ==
    {JsonBody(d) : d \in CreateBodies(name)}
        \cup {JsonBody([app |-> [description |-> "custom"]]), NotJson}

DefaultConfig == "{}"

\* request bodies of update, forwarded as **data to apps.update
UpdateBodies ==
    {[app |-> [name |-> "renamed", description |-> "changed", config |-> "c1"]]}

\* what is put: the bodies above, and text that is not JSON
UpdateRequests == {JsonBody(d) : d \in UpdateBodies} \cup {NotJson}

---------------------------------------------------------------------------
(* The registry, models.app.Apps: a table of (name, project_id, description) *)

App(name, project_id, description) ==
    [name |-> name, project_id |-> project_id, description |-> description]

NoApp == App("", "", "")

\* Apps.exists(name, project_id)
Exists(table, name, project_id) ==
    \E i \in 1..Len(table) :
        table[i].name = name /\ table[i].project_id = project_id

\* Apps.find_by(project_id=project_id)
FindByProject(table, project_id) ==
    SelectSeq(table, LAMBDA a : a.project_id = project_id)

\* Apps.find_by(project_id=project_id, name=name)
FindBy(table, project_id, name) ==
    SelectSeq(table, LAMBDA a : a.project_id = project_id /\ a.name = name)

\* list.pop(): the last element
Pop(list) == list[Len(list)]

\* Apps(...).save()
Save(table, app) == Append(table, app)

\* Apps.delete(project_id=project_id, name=name)
Delete(table, project_id, name) ==
    SelectSeq(table, LAMBDA a : ~(a.project_id = project_id /\ a.name = name))

---------------------------------------------------------------------------
(* The functions platform behind config.functions_client *)

NoFnApp == [exists |-> FALSE, config |-> "", routes |-> <<>>]

NewFnApp == [exists |-> TRUE, config |-> DefaultConfig, routes |-> <<>>]

\* the object apps.show / apps.create / apps.update hand back
FnAppObject(platform, name) == [name |-> name, config |-> platform[name].config]

NoFnAppObject == [name |-> "", config |-> ""]

\* errors the client raises: the platform's answer carries status and reason,
\* a transport failure carries neither
NoError == [attrs |-> {}, status |-> 0, reason |-> "", str |-> ""]

NotFoundError ==
    [attrs |-> {"status", "reason"}, status |-> 404, reason |-> "Not Found",
     str |-> "(404) Reason: Not Found"]

ConflictError ==
    [attrs |-> {"status", "reason"}, status |-> 409, reason |-> "Conflict",
     str |-> "(409) Reason: Conflict"]

ConnectionError ==
    [attrs |-> {}, status |-> 0, reason |-> "", str |-> "Cannot connect to host"]

\* what apps.show, apps.update, apps.delete and routes.list may raise on `name`
FnErrors(platform, name) ==
    IF platform[name].exists THEN {ConnectionError}
    ELSE {ConnectionError, NotFoundError}

\* what apps.create may raise on `name`
FnCreateErrors(platform, name) ==
    IF platform[name].exists THEN {ConnectionError, ConflictError}
    ELSE {ConnectionError}

\* what a write to the registry may raise
DatabaseError ==
    [attrs |-> {}, status |-> 0, reason |-> "", str |-> "database error"]

\* what the handler's own lines raise: request.json() on text that is not
\* JSON, data["app"]["name"] on a body without it, [].pop()
ValueError ==
    [attrs |-> {}, status |-> 0, reason |-> "",
     str |-> "Expecting value: line 1 column 1 (char 0)"]

KeyError == [attrs |-> {}, status |-> 0, reason |-> "", str |-> "'name'"]

IndexError ==
    [attrs |-> {}, status |-> 0, reason |-> "", str |-> "pop from empty list"]

\* the declared status is not looked at
ErrorStatus_Always500(ex) == 500

\* getattr(ex, "status", 500)
ErrorStatus(ex) == IF "status" \in ex.attrs THEN ex.status ELSE 500

\* the declared reason is not looked at
ErrorMessage_Str(ex) == ex.str

\* getattr(ex, "reason", str(ex))
ErrorMessage(ex) == IF "reason" \in ex.attrs THEN ex.reason ELSE ex.str

---------------------------------------------------------------------------
(* views.app.AppView(app, fn_app).view() *)

AppView(app, fn_app) ==
    [name |-> app.name, project_id |-> app.project_id,
     description |-> app.description, config |-> fn_app.config]

---------------------------------------------------------------------------
(* Request slots *)

Idle ==
    [pc |-> "idle", op |-> "", project_id |-> "", app |-> "",
     request |-> NoBody, data |-> NoBody, error |-> NoError,
     stored_apps |-> <<>>, stored_app |-> NoApp, fn_app |-> NoFnAppObject,
     fn_app_routes |-> <<>>, final |-> <<>>,
     status |-> 0, body |-> NoBody, calls |-> <<>>]

\* one awaited collaborator call as the request's log records it: what was
\* called, on which name, and the exception it raised (NoError: it returned)
Call(fun, arg, ex) == [fun |-> fun, arg |-> arg, ex |-> ex]

\* a request enters its handler
Begin(op, project_id, app, data) ==
    [Idle EXCEPT !.op = op, !.project_id = project_id, !.app = app, !.data = data]

\* a request with a body enters its handler and waits for request.json()
BeginRead(op, project_id, app, body) ==
    [Idle EXCEPT !.pc = op \o "_json", !.op = op, !.project_id = project_id,
                 !.app = app, !.request = body]

\* web.json_response(data=..., status=...): the handler returns
JsonResponse(q, data, status) ==
    [q EXCEPT !.pc = "done", !.status = status, !.body = data]

\* an exception leaves the handler
Raise(q) == [q EXCEPT !.pc = "raised"]

\* an exception of the handler's own lines leaves it
Throw(q, ex) == [Raise(q) EXCEPT !.error = ex]

ErrorBody(message) == [error |-> [message |-> message]]

\* the except-branches of get, update and delete
ErrorResponse(q, ex) ==
    JsonResponse(q, ErrorBody(ErrorMessage(ex)), ErrorStatus(ex))

Logged(q, fun, arg, ex) == [q EXCEPT !.calls = Append(@, Call(fun, arg, ex))]


---------------------------------------------------------------------------
(* create *)

\* the submitted description is dropped
Description_Default(data, project_id) == "App for project " \o project_id

\* data["app"].get("description", "App for project {}".format(project_id))
Description(data, project_id) ==
    IF "description" \in DOMAIN data.app THEN data.app.description
    ELSE "App for project " \o project_id

\* the result of the existence check is not looked at
CreateChecked_NoConflict(q, found) == [q EXCEPT !.pc = "create_fn"]

\* the record is saved without the remote app having been created
CreateChecked_SaveFirst(q, found) ==
    IF found
    THEN JsonResponse(q, ErrorBody("App " \o q.app \o " already exists"), 409)
    ELSE [q EXCEPT !.pc = "create_save"]

\* lines 100-107: the branch on the result of Apps.exists
CreateChecked(q, found) ==
    IF found
    THEN JsonResponse(q, ErrorBody("App " \o q.app \o " already exists"), 409)
    ELSE [q EXCEPT !.pc = "create_fn"]

\* lines 90-93: the handler is entered and waits at await request.json()
CreateEnter(r, project_id, body) ==
    /\ req[r].pc = "idle"
    /\ req' = [req EXCEPT ![r] = BeginRead("create", project_id, "", body)]
    /\ UNCHANGED <<apps, fn_apps, last_created>>

\* lines 93-98: data = await request.json(), then the derived name
CreateRead(q) ==
    IF ~q.request.json THEN Throw(q, ValueError)
    ELSE LET data == q.request.value
         IN  IF "name" \notin DOMAIN data.app
             THEN Throw([q EXCEPT !.data = data], KeyError)
             ELSE [q EXCEPT !.data = data,
                            !.app = DerivedName(data.app.name, q.project_id),
                            !.pc = "create_exists"]

\* lines 93-98: request.json() returns or raises
CreateJson(r) ==
    /\ req[r].pc = "create_json"
    /\ req' = [req EXCEPT ![r] = CreateRead(req[r])]
    /\ UNCHANGED <<apps, fn_apps, last_created>>

\* lines 100-107: await Apps.exists, 409 when the record is there
CreateExists(r) ==
    LET q == req[r]
    IN  /\ q.pc = "create_exists"
        /\ req' = [req EXCEPT ![r] =
              CreateChecked(Logged(q, "Apps.exists", q.app, NoError),
                            Exists(apps, q.app, q.project_id))]
        /\ UNCHANGED <<apps, fn_apps, last_created>>

\* line 109: await fnclient.apps.create(app_name); a failure is not caught
CreateFn(r) ==
    LET q == req[r]
    IN  /\ q.pc = "create_fn"
        /\ \/ /\ fn_apps' = [fn_apps EXCEPT ![q.app] =
                     IF @.exists THEN @ ELSE NewFnApp]
              /\ req' = [req EXCEPT ![r] =
                     [Logged(q, "apps.create", q.app, NoError) EXCEPT
                         !.pc = "create_save",
                         !.fn_app = FnAppObject(fn_apps', q.app)]]
           \/ /\ \E ex \in FnCreateErrors(fn_apps, q.app) :
                    req' = [req EXCEPT ![r] =
                        Raise(Logged(q, "apps.create", q.app, ex))]
              /\ UNCHANGED fn_apps
        /\ UNCHANGED <<apps, last_created>>

\* the save looks for the record once more and answers 409 when it is there
CreateSave_Recheck(r) ==
    LET q == req[r]
        stored_app == App(q.app, q.project_id, Description(q.data, q.project_id))
    IN  /\ q.pc = "create_save"
        /\ IF Exists(apps, q.app, q.project_id)
           THEN /\ req' = [req EXCEPT ![r] =
                       JsonResponse(Logged(q, "Apps.save", q.app, DatabaseError),
                           ErrorBody("App " \o q.app \o " already exists"), 409)]
                /\ UNCHANGED apps
           ELSE /\ apps' = Save(apps, stored_app)
                /\ req' = [req EXCEPT ![r] =
                       JsonResponse(
                           [Logged(q, "Apps.save", q.app, NoError) EXCEPT
                               !.stored_app = stored_app],
                           [app |-> AppView(stored_app, q.fn_app),
                            message |-> "App successfully created"], 200)]
        /\ UNCHANGED <<fn_apps, last_created>>

\* lines 111-123: await Apps(...).save(), then the 200 view
CreateSave(r) ==
    LET q == req[r]
        stored_app == App(q.app, q.project_id, Description(q.data, q.project_id))
    IN  /\ q.pc = "create_save"
        /\ \/ /\ apps' = Save(apps, stored_app)
              /\ req' = [req EXCEPT ![r] =
                     JsonResponse(
                         [Logged(q, "Apps.save", q.app, NoError) EXCEPT
                             !.stored_app = stored_app],
                         [app |-> AppView(stored_app, q.fn_app),
                          message |-> "App successfully created"], 200)]
           \/ /\ req' = [req EXCEPT ![r] =
                     Raise(Logged(q, "Apps.save", q.app, DatabaseError))]
              /\ UNCHANGED apps
        /\ UNCHANGED <<fn_apps, last_created>>

---------------------------------------------------------------------------
(* get *)

\* lines 149-156: the branch on the result of Apps.exists
GetChecked(q, found) ==
    IF ~found
    THEN JsonResponse(q, ErrorBody("App " \o q.app \o " not found"), 404)
    ELSE [q EXCEPT !.pc = "get_find"]

\* lines 142-156: await Apps.exists, 404 when the record is missing
GetExists(r, project_id, app) ==
    LET q == Logged(Begin("get", project_id, app, NoBody),
                    "Apps.exists", app, NoError)
    IN  /\ req[r].pc = "idle"
        /\ req' = [req EXCEPT ![r] = GetChecked(q, Exists(apps, app, project_id))]
        /\ UNCHANGED <<apps, fn_apps, last_created>>

\* lines 158-159: (await Apps.find_by(project_id, name)).pop(); popping an
\* empty list raises IndexError
GetFind(r) ==
    LET q == req[r]
        found == FindBy(apps, q.project_id, q.app)
    IN  /\ q.pc = "get_find"
        /\ req' = [req EXCEPT ![r] =
              IF found = <<>>
              THEN Throw(Logged(q, "Apps.find_by", q.app, NoError), IndexError)
              ELSE [Logged(q, "Apps.find_by", q.app, NoError) EXCEPT
                       !.pc = "get_show", !.stored_app = Pop(found)]]
        /\ UNCHANGED <<apps, fn_apps, last_created>>

\* lines 160-178: await fnclient.apps.show(app) inside try/except
GetShow(r) ==
    LET q == req[r]
    IN  /\ q.pc = "get_show"
        /\ \/ /\ fn_apps[q.app].exists
              /\ req' = [req EXCEPT ![r] =
                     JsonResponse(
                         [Logged(q, "apps.show", q.app, NoError) EXCEPT
                             !.fn_app = FnAppObject(fn_apps, q.app)],
                         [app |-> AppView(q.stored_app, FnAppObject(fn_apps, q.app)),
                          message |-> "Successfully loaded app"], 200)]
           \/ \E ex \in FnErrors(fn_apps, q.app) :
                 req' = [req EXCEPT ![r] =
                     ErrorResponse(Logged(q, "apps.show", q.app, ex), ex)]
        /\ UNCHANGED <<apps, fn_apps, last_created>>

---------------------------------------------------------------------------
(* update *)

\* lines 204-211: the branch on the result of Apps.exists
UpdateChecked(q, found) ==
    IF ~found
    THEN JsonResponse(q, ErrorBody("App " \o q.app \o " not found"), 404)
    ELSE [q EXCEPT !.pc = "update_fn"]

\* lines 197-201: the handler is entered and waits at await request.json()
UpdateEnter(r, project_id, app_name, body) ==
    /\ req[r].pc = "idle"
    /\ req' = [req EXCEPT ![r] = BeginRead("update", project_id, app_name, body)]
    /\ UNCHANGED <<apps, fn_apps, last_created>>

\* line 201: data = await request.json()
UpdateRead(q) ==
    IF ~q.request.json THEN Throw(q, ValueError)
    ELSE [q EXCEPT !.data = q.request.value, !.pc = "update_exists"]

\* line 201: request.json() returns or raises
UpdateJson(r) ==
    /\ req[r].pc = "update_json"
    /\ req' = [req EXCEPT ![r] = UpdateRead(req[r])]
    /\ UNCHANGED <<apps, fn_apps, last_created>>

\* lines 204-211: await Apps.exists, 404 when the record is missing
UpdateExists(r) ==
    LET q == req[r]
    IN  /\ q.pc = "update_exists"
        /\ req' = [req EXCEPT ![r] =
              UpdateChecked(Logged(q, "Apps.exists", q.app, NoError),
                            Exists(apps, q.app, q.project_id))]
        /\ UNCHANGED <<apps, fn_apps, last_created>>

\* lines 213-223: await fnclient.apps.update(app_name, **data) inside try/except
UpdateFn(r) ==
    LET q == req[r]
    IN  /\ q.pc = "update_fn"
        /\ \/ /\ fn_apps[q.app].exists
              /\ fn_apps' = [fn_apps EXCEPT ![q.app].config = q.data.app.config]
              /\ req' = [req EXCEPT ![r] =
                     [Logged(q, "apps.update", q.app, NoError) EXCEPT
                         !.pc = "update_find",
                         !.fn_app = FnAppObject(fn_apps', q.app)]]
           \/ /\ \E ex \in FnErrors(fn_apps, q.app) :
                    req' = [req EXCEPT ![r] =
                        ErrorResponse(Logged(q, "apps.update", q.app, ex), ex)]
              /\ UNCHANGED fn_apps
        /\ UNCHANGED <<apps, last_created>>

\* the view shows the description of the body
UpdateLoaded_FromBody(q, stored_app) ==
    JsonResponse([q EXCEPT !.stored_app = stored_app],
        [app |-> AppView([stored_app EXCEPT !.description = q.data.app.description],
                         q.fn_app),
         message |-> "App successfully updated"], 200)

\* lines 225-235: the record that was re-read, and the 200 view made of it
UpdateLoaded(q, stored_app) ==
    JsonResponse([q EXCEPT !.stored_app = stored_app],
        [app |-> AppView(stored_app, q.fn_app),
         message |-> "App successfully updated"], 200)

\* lines 225-235: (await Apps.find_by(project_id, name)).pop(), then the 200 view
UpdateFind(r) ==
    LET q == req[r]
        found == FindBy(apps, q.project_id, q.app)
    IN  /\ q.pc = "update_find"
        /\ req' = [req EXCEPT ![r] =
              IF found = <<>>
              THEN Throw(Logged(q, "Apps.find_by", q.app, NoError), IndexError)
              ELSE UpdateLoaded(Logged(q, "Apps.find_by", q.app, NoError),
                                Pop(found))]
        /\ UNCHANGED <<apps, fn_apps, last_created>>

---------------------------------------------------------------------------
(* delete *)

\* lines 258-265: the branch on the result of Apps.exists
DeleteChecked(q, found) ==
    IF ~found
    THEN JsonResponse(q, ErrorBody("App " \o q.app \o " not found"), 404)
    ELSE [q EXCEPT !.pc = "delete_show"]

\* lines 254-265: await Apps.exists, 404 when the record is missing
DeleteExists(r, project_id, app) ==
    LET q == Logged(Begin("delete", project_id, app, NoBody),
                    "Apps.exists", app, NoError)
    IN  /\ req[r].pc = "idle"
        /\ req' = [req EXCEPT ![r] =
              DeleteChecked(q, Exists(apps, app, project_id))]
        /\ UNCHANGED <<apps, fn_apps, last_created>>

\* lines 266-267, 269-276: await fnclient.apps.show(app) inside try/except
DeleteShow(r) ==
    LET q == req[r]
    IN  /\ q.pc = "delete_show"
        /\ \/ /\ fn_apps[q.app].exists
              /\ req' = [req EXCEPT ![r] =
                     [Logged(q, "apps.show", q.app, NoError) EXCEPT
                         !.pc = "delete_routes",
                         !.fn_app = FnAppObject(fn_apps, q.app)]]
           \/ \E ex \in FnErrors(fn_apps, q.app) :
                 req' = [req EXCEPT ![r] =
                     ErrorResponse(Logged(q, "apps.show", q.app, ex), ex)]
        /\ UNCHANGED <<apps, fn_apps, last_created>>

\* the local delete is skipped
DeleteRoutesChecked_SkipLocal(q, fn_app_routes) ==
    IF Len(fn_app_routes) > 0
    THEN JsonResponse([q EXCEPT !.fn_app_routes = fn_app_routes],
             ErrorBody("Unable to delete app " \o q.app \o " with routes"), 403)
    ELSE [q EXCEPT !.fn_app_routes = fn_app_routes, !.pc = "delete_fn"]

\* lines 278-286: the branch on the routes that were listed
DeleteRoutesChecked(q, fn_app_routes) ==
    IF Len(fn_app_routes) > 0
    THEN JsonResponse([q EXCEPT !.fn_app_routes = fn_app_routes],
             ErrorBody("Unable to delete app " \o q.app \o " with routes"), 403)
    ELSE [q EXCEPT !.fn_app_routes = fn_app_routes, !.pc = "delete_local"]

\* lines 268-286: await fn_app.routes.list() inside the same try/except, then
\* 403 when the list is not empty
DeleteRoutes(r) ==
    LET q == req[r]
    IN  /\ q.pc = "delete_routes"
        /\ \/ /\ fn_apps[q.app].exists
              /\ req' = [req EXCEPT ![r] =
                     DeleteRoutesChecked(Logged(q, "routes.list", q.app, NoError),
                                         fn_apps[q.app].routes)]
           \/ \E ex \in FnErrors(fn_apps, q.app) :
                 req' = [req EXCEPT ![r] =
                     ErrorResponse(Logged(q, "routes.list", q.app, ex), ex)]
        /\ UNCHANGED <<apps, fn_apps, last_created>>

\* lines 288-290: await Apps.delete(project_id, name); a failure is not caught
DeleteLocal(r) ==
    LET q == req[r]
    IN  /\ q.pc = "delete_local"
        /\ \/ /\ apps' = Delete(apps, q.project_id, q.app)
              /\ req' = [req EXCEPT ![r] =
                     [Logged(q, "Apps.delete", q.app, NoError) EXCEPT
                         !.pc = "delete_fn"]]
           \/ /\ req' = [req EXCEPT ![r] =
                     Raise(Logged(q, "Apps.delete", q.app, DatabaseError))]
              /\ UNCHANGED apps
        /\ UNCHANGED <<fn_apps, last_created>>

\* lines 291-296: await fnclient.apps.delete(app), not caught, then the 200
DeleteFn(r) ==
    LET q == req[r]
    IN  /\ q.pc = "delete_fn"
        /\ \/ /\ fn_apps[q.app].exists
              /\ fn_apps' = [fn_apps EXCEPT ![q.app] = NoFnApp]
              /\ req' = [req EXCEPT ![r] =
                     JsonResponse(Logged(q, "apps.delete", q.app, NoError),
                         [message |-> "App successfully deleted"], 200)]
           \/ /\ \E ex \in FnErrors(fn_apps, q.app) :
                    req' = [req EXCEPT ![r] =
                        Raise(Logged(q, "apps.delete", q.app, ex))]
              /\ UNCHANGED fn_apps
        /\ UNCHANGED <<apps, last_created>>

---------------------------------------------------------------------------
(* list *)

\* lines 45-51, 54-61: await Apps.find_by(project_id); with nothing stored the
\* loop is skipped and the empty list is returned
ListFind(r, project_id) ==
    LET stored_apps == FindByProject(apps, project_id)
        q == [Logged(Begin("list", project_id, "", NoBody),
                     "Apps.find_by", project_id, NoError) EXCEPT
                 !.stored_apps = stored_apps]
    IN  /\ req[r].pc = "idle"
        /\ req' = [req EXCEPT ![r] =
              IF stored_apps = <<>>
              THEN JsonResponse(q,
                       [apps |-> <<>>,
                        message |-> "Successfully listed applications"], 200)
              ELSE [q EXCEPT !.pc = "list_show"]]
        /\ UNCHANGED <<apps, fn_apps, last_created>>

\* the loop puts each view in front of the ones collected before
ListShow_Prepend(r) ==
    LET q == req[r]
        app == q.stored_apps[Len(q.final) + 1]
        final == <<AppView(app, FnAppObject(fn_apps, app.name))>> \o q.final
        got == [Logged(q, "apps.show", app.name, NoError) EXCEPT !.final = final]
    IN  /\ q.pc = "list_show"
        /\ \/ /\ fn_apps[app.name].exists
              /\ req' = [req EXCEPT ![r] =
                     IF Len(final) = Len(q.stored_apps)
                     THEN JsonResponse(got,
                              [apps |-> final,
                               message |-> "Successfully listed applications"], 200)
                     ELSE got]
           \/ \E ex \in FnErrors(fn_apps, app.name) :
                 req' = [req EXCEPT ![r] =
                     Raise(Logged(q, "apps.show", app.name, ex))]
        /\ UNCHANGED <<apps, fn_apps, last_created>>

\* lines 51-61: one turn of the loop, await fnclient.apps.show(app.name), not
\* caught; after the last turn the 200
ListShow(r) ==
    LET q == req[r]
        app == q.stored_apps[Len(q.final) + 1]
        final == Append(q.final, AppView(app, FnAppObject(fn_apps, app.name)))
        got == [Logged(q, "apps.show", app.name, NoError) EXCEPT !.final = final]
    IN  /\ q.pc = "list_show"
        /\ \/ /\ fn_apps[app.name].exists
              /\ req' = [req EXCEPT ![r] =
                     IF Len(final) = Len(q.stored_apps)
                     THEN JsonResponse(got,
                              [apps |-> final,
                               message |-> "Successfully listed applications"], 200)
                     ELSE got]
           \/ \E ex \in FnErrors(fn_apps, app.name) :
                 req' = [req EXCEPT ![r] =
                     Raise(Logged(q, "apps.show", app.name, ex))]
        /\ UNCHANGED <<apps, fn_apps, last_created>>

---------------------------------------------------------------------------
(* The response leaves; the slot is free for the next request *)

Reply(r) ==
    /\ req[r].pc \in {"done", "raised"}
    /\ req' = [req EXCEPT ![r] = Idle]
    /\ last_created' =
          IF req[r].op = "create" /\ req[r].pc = "done" /\ req[r].status = 200
          THEN [project_id |-> req[r].project_id, data |-> req[r].data,
                name |-> req[r].body.app.name]
          ELSE NoBody
    /\ UNCHANGED <<apps, fn_apps>>

---------------------------------------------------------------------------
(* Routes are added to a remote app from outside this controller *)

AddRoute(name) ==
    /\ fn_apps[name].exists
    /\ Len(fn_apps[name].routes) < MaxRoutes
    /\ fn_apps' = [fn_apps EXCEPT ![name].routes = Append(@, Len(@) + 1)]
    /\ UNCHANGED <<apps, req, last_created>>

---------------------------------------------------------------------------

Init ==
    /\ apps = <<>>
    /\ fn_apps = [n \in AppNames |-> NoFnApp]
    /\ req = [r \in Slots |-> Idle]
    /\ last_created = NoBody

\* the handlers of the slots S, for the requests T
Service(S, T) ==
    \/ \E r \in S, p \in ProjectsOf(T) : ListFind(r, p)
    \/ \E r \in S : ListShow(r)
    \/ \E r \in S, t \in T :
          \E b \in CreateRequests(t[2]) : CreateEnter(r, t[1], b)
    \/ \E r \in S : CreateJson(r)
    \/ \E r \in S : CreateExists(r)
    \/ \E r \in S : CreateFn(r)
    \/ \E r \in S : CreateSave(r)
    \/ \E r \in S, p \in ProjectsOf(T), n \in AppNamesOf(T) : GetExists(r, p, n)
    \/ \E r \in S : GetFind(r)
    \/ \E r \in S : GetShow(r)
    \/ \E r \in S, p \in ProjectsOf(T), n \in AppNamesOf(T), b \in UpdateRequests :
          UpdateEnter(r, p, n, b)
    \/ \E r \in S : UpdateJson(r)
    \/ \E r \in S : UpdateExists(r)
    \/ \E r \in S : UpdateFn(r)
    \/ \E r \in S : UpdateFind(r)
    \/ \E r \in S, p \in ProjectsOf(T), n \in AppNamesOf(T) : DeleteExists(r, p, n)
    \/ \E r \in S : DeleteShow(r)
    \/ \E r \in S : DeleteRoutes(r)
    \/ \E r \in S : DeleteLocal(r)
    \/ \E r \in S : DeleteFn(r)
    \/ \E r \in S : Reply(r)

Platform == \E n \in AppNames : AddRoute(n)

\* one request at a time, every project and name
Next == Service({"r1"}, Requests) \/ Platform

Spec == Init /\ [][Next]_vars

\* two requests at a time on one app
ConcNext == Service(Slots, {<<"p1", "billing">>}) \/ Platform

ConcSpec == Init /\ [][ConcNext]_vars

\* requests of one project, one at a time
ProjRequests == {<<"p1", "billing">>, <<"p1", LongName>>}

ProjNext == Service({"r1"}, ProjRequests) \/ Platform

ProjSpec == Init /\ [][ProjNext]_vars

---------------------------------------------------------------------------
(* Properties *)

HasCall(q, fun) == \E i \in 1..Len(q.calls) : q.calls[i].fun = fun

\* the last collaborator call of a request, none for a request that made none
LastCall(q) ==
    IF q.calls = <<>> THEN Call("", "", NoError) ELSE q.calls[Len(q.calls)]

\* the handler of slot r takes a step
Steps(r) == req'[r] # req[r] /\ req[r].pc # "done" /\ req[r].pc # "raised"

\* the last finished request was a create that returned 200, for this
\* project and this requested name
JustCreated(project_id, name) ==
    /\ last_created # NoBody
    /\ last_created.project_id = project_id
    /\ last_created.data.app.name = name

\* C1, in every state: a create that follows a successful create of the same
\* (project_id, name) has returned 409, having called Apps.exists and nothing else
C1_Second ==
    \A r \in Slots :
        LET q == req[r]
        IN  (/\ q.op = "create"
             /\ HasCall(q, "Apps.exists")
             /\ JustCreated(q.project_id, q.data.app.name))
                => /\ q.pc = "done"
                   /\ q.status = 409
                   /\ q.calls = <<Call("Apps.exists", q.app, NoError)>>

\* C1, in every step: a create that finds its derived name stored for its
\* project returns 409 at once, and neither store changes
C1_Check ==
    \A r \in Slots :
        (/\ req[r].pc = "create_exists"
         /\ req'[r] # req[r]
         /\ Exists(apps, req[r].app, req[r].project_id))
            => /\ req'[r].pc = "done"
               /\ req'[r].status = 409
               /\ ~HasCall(req'[r], "apps.create")
               /\ ~HasCall(req'[r], "Apps.save")
               /\ apps' = apps
               /\ fn_apps' = fn_apps

\* C1: a second create of the same (project_id, name) returns 409 without
\* calling apps.create again; whenever Apps.exists is true at the check, create
\* returns 409 without a remote call and without a write to the registry
C1_Conflict == []C1_Second /\ [][C1_Check]_vars

C1_Witness ==
    \E r \in Slots :
        /\ req[r].op = "create"
        /\ req[r].status = 409
        /\ JustCreated(req[r].project_id, req[r].data.app.name)

\* C2, in every state: a delete that listed a non-empty route list has
\* returned 403 and called neither Apps.delete nor apps.delete
C2_Refused ==
    \A r \in Slots :
        LET q == req[r]
        IN  (q.op = "delete" /\ Len(q.fn_app_routes) > 0)
                => /\ q.pc = "done"
                   /\ q.status = 403
                   /\ ~HasCall(q, "Apps.delete")
                   /\ ~HasCall(q, "apps.delete")

\* C2, in every step: when routes.list returns and the remote app holds a
\* route, the delete returns 403 in that step and neither store changes
C2_Intact ==
    \A r \in Slots :
        (/\ req[r].op = "delete"
         /\ req[r].pc = "delete_routes"
         /\ Steps(r)
         /\ LastCall(req'[r]).ex = NoError
         /\ Len(fn_apps[req[r].app].routes) > 0)
            => /\ req'[r].pc = "done"
               /\ req'[r].status = 403
               /\ apps' = apps
               /\ fn_apps' = fn_apps

\* C2, in every step: an app whose remote app holds a route is not deleted:
\* no step removes its remote app or a record of its name
C2_NeverDeleted ==
    \A n \in AppNames :
        (fn_apps[n].exists /\ Len(fn_apps[n].routes) > 0)
            => /\ fn_apps'[n].exists
               /\ \A i \in 1..Len(apps) :
                     apps[i].name = n
                         => \E j \in 1..Len(apps') : apps'[j] = apps[i]

\* C2: a delete of an app whose remote route list is non-empty returns 403 and
\* leaves the local record and the remote app as they are: neither Apps.delete
\* nor apps.delete is invoked, so an app with at least one route is never
\* deleted by this service
C2_RoutesBlockDelete ==
    []C2_Refused /\ [][C2_Intact /\ C2_NeverDeleted]_vars

\* C3, in every step: a get, update or delete for a (project_id, app) with no
\* stored record ends in 404, having called Apps.exists and nothing else, and
\* neither store changes
C3_Check ==
    \A r \in Slots :
        (/\ req'[r].op \in {"get", "update", "delete"}
         /\ req[r].pc \in {"idle", "update_json", "update_exists"}
         /\ req'[r] # req[r]
         /\ ~Exists(apps, req'[r].app, req'[r].project_id))
            => /\ \/ req'[r].pc \in {"update_json", "update_exists"}
                  \/ /\ req'[r].pc = "done"
                     /\ req'[r].status = 404
                     /\ req'[r].calls =
                           <<Call("Apps.exists", req'[r].app, NoError)>>
               /\ apps' = apps
               /\ fn_apps' = fn_apps

\* C3, in every step: a request that has returned makes no further call
C3_Final ==
    \A r \in Slots :
        req[r].pc \in {"done", "raised"} => req'[r] \in {req[r], Idle}

\* C3: get, update and delete for a (project_id, app) with no local record
\* return 404, and no call to the functions platform is made in that request
C3_NotFound == [][C3_Check /\ C3_Final]_vars

\* C4: a get that follows a successful create, for the created app, does not
\* return 404 and does not raise; unless the remote fetch itself fails (the
\* mapped error is returned) it returns 200 with the name the create returned,
\* the project, and the submitted description, or "App for project
\* {project_id}" when the body had none
C4_CreateThenGet ==
    \A r \in Slots :
        LET q == req[r]
            d == last_created.data.app
        IN  (/\ q.op = "get"
             /\ q.pc \in {"done", "raised"}
             /\ last_created # NoBody
             /\ q.project_id = last_created.project_id
             /\ q.app = last_created.name)
                => /\ q.pc = "done"
                   /\ q.status # 404
                   /\ \/ /\ q.status = 200
                         /\ q.body.app.name = last_created.name
                         /\ q.body.app.project_id = last_created.project_id
                         /\ q.body.app.description =
                               IF "description" \in DOMAIN d THEN d.description
                               ELSE "App for project " \o last_created.project_id
                      \/ /\ LastCall(q).fun = "apps.show"
                         /\ LastCall(q).ex # NoError

C4_Witness ==
    \E r \in Slots :
        /\ req[r].op = "get"
        /\ req[r].status = 200
        /\ last_created # NoBody
        /\ req[r].project_id = last_created.project_id
        /\ req[r].app = last_created.name
        /\ "description" \notin DOMAIN last_created.data.app
        /\ req[r].body.app.description = "App for project p1"

\* n is the first 30 characters of "{name}-{project_id}", or all of it
IsDerived(n, name, project_id) ==
    LET full == name \o "-" \o project_id
    IN  /\ Len(n) = IF Len(full) <= 30 THEN Len(full) ELSE 30
        /\ n = SubSeq(full, 1, Len(n))

\* C5: the name a create works with is the first 30 characters of
\* "{body.app.name}-{project_id}" (all of it when it has 30 or fewer); the
\* existence check, the remote create and the local save all use that name,
\* and so do the stored record, the remote app and the view of a 200
C5_DerivedName ==
    \A r \in Slots :
        LET q == req[r]
        IN  (q.op = "create" /\ q.calls # <<>>)
                => /\ IsDerived(q.app, q.data.app.name, q.project_id)
                   /\ \A i \in 1..Len(q.calls) : q.calls[i].arg = q.app
                   /\ q.status = 200
                         => /\ q.calls = <<Call("Apps.exists", q.app, NoError),
                                           Call("apps.create", q.app, NoError),
                                           Call("Apps.save", q.app, NoError)>>
                            /\ q.stored_app.name = q.app
                            /\ q.fn_app.name = q.app
                            /\ q.body.app.name = q.app
                            /\ Exists(apps, q.app, q.project_id)
                            /\ fn_apps[q.app].exists

C5_Witness ==
    \E r \in Slots :
        /\ req[r].op = "create"
        /\ req[r].status = 200
        /\ Len(req[r].data.app.name \o "-" \o req[r].project_id) > 30
        /\ req[r].stored_app.name = "customer-analytics-dashboard-s"
        /\ Exists(apps, "customer-analytics-dashboard-s", req[r].project_id)

\* the status and the body the except-branches give an exception
MappedStatus(ex) == IF "status" \in ex.attrs THEN ex.status ELSE 500

MappedBody(ex) ==
    [error |-> [message |-> IF "reason" \in ex.attrs THEN ex.reason ELSE ex.str]]

\* C6, in every state: a get or update whose remote call raised has returned
\* the mapped status and message, and no 200
C6_Mapped ==
    \A r \in Slots :
        LET q == req[r]
        IN  (/\ q.op \in {"get", "update"}
             /\ \E i \in 1..Len(q.calls) :
                    /\ q.calls[i].fun \in {"apps.show", "apps.update"}
                    /\ q.calls[i].ex # NoError)
                => /\ q.pc = "done"
                   /\ LastCall(q).fun \in {"apps.show", "apps.update"}
                   /\ q.status = MappedStatus(LastCall(q).ex)
                   /\ q.body = MappedBody(LastCall(q).ex)
                   /\ q.status # 200

\* C6, in every step: no step of a get or an update changes the registry
C6_Registry ==
    \A r \in Slots :
        (req'[r].op \in {"get", "update"} /\ Steps(r)) => apps' = apps

\* C6: when apps.show in get or apps.update in update fails, the response has
\* the error's declared status (500 when it declares none) and its declared
\* reason (its string form when it declares none); no 200 is produced and the
\* registry is not modified
C6_RemoteFailure == []C6_Mapped /\ [][C6_Registry]_vars

C6_Witness ==
    \E r \in Slots :
        /\ req[r].op = "update"
        /\ LastCall(req[r]) = Call("apps.update", req[r].app, ConnectionError)
        /\ req[r].status = 500
        /\ req[r].body = [error |-> [message |-> "Cannot connect to host"]]

\* C7, in every state: a create that has called Apps.save called it right
\* after an apps.create that returned; a create whose apps.create raised has
\* built no response and has not called Apps.save
C7_Order ==
    \A r \in Slots :
        LET q == req[r]
        IN  q.op = "create"
                => /\ \A i \in 1..Len(q.calls) :
                          q.calls[i].fun = "Apps.save"
                              => /\ i > 1
                                 /\ q.calls[i - 1] = Call("apps.create", q.app, NoError)
                   /\ (LastCall(q).fun = "apps.create" /\ LastCall(q).ex # NoError)
                         => /\ q.pc = "raised"
                            /\ q.status = 0
                            /\ q.body = NoBody

\* C7, in every step: a record is added to the registry only by a create whose
\* apps.create has returned, while the remote app is there; the step in which
\* apps.create raises leaves the registry as it is
C7_Saved ==
    /\ Len(apps') > Len(apps)
          => \E r \in Slots :
                 /\ req[r].pc = "create_save"
                 /\ LastCall(req[r]) = Call("apps.create", req[r].app, NoError)
                 /\ fn_apps[req[r].app].exists
                 /\ Len(apps') = Len(apps) + 1
                 /\ Pop(apps').name = req[r].app
    /\ \A r \in Slots :
          (req[r].pc = "create_fn" /\ req'[r].pc = "raised") => apps' = apps

\* C7: create writes the local record only after apps.create has returned
\* successfully; when remote creation fails the error leaves the handler
\* uncaught, no response is built and no record is saved
C7_RemoteBeforeLocal == []C7_Order /\ [][C7_Saved]_vars

C7_Witness ==
    \E r \in Slots :
        /\ req[r].op = "create"
        /\ req[r].pc = "raised"
        /\ LastCall(req[r]).fun = "apps.create"
        /\ ~Exists(apps, req[r].app, req[r].project_id)

\* C8, in every state: a delete calls apps.delete only right after an
\* Apps.delete that returned, and has its 200 only when apps.delete returned
\* too, with the record and the remote app gone
C8_Order ==
    \A r \in Slots :
        LET q == req[r]
        IN  q.op = "delete"
                => /\ \A i \in 1..Len(q.calls) :
                          q.calls[i].fun = "apps.delete"
                              => /\ i > 1
                                 /\ q.calls[i - 1] = Call("Apps.delete", q.app, NoError)
                   /\ q.pc = "delete_local"
                         => LastCall(q) = Call("routes.list", q.app, NoError)
                   /\ q.status = 200
                         => /\ LastCall(q) = Call("apps.delete", q.app, NoError)
                            /\ ~Exists(apps, q.app, q.project_id)
                            /\ ~fn_apps[q.app].exists

\* C8, in every step: apps.delete is invoked when no record of the request's
\* (project_id, app) is stored
C8_LocalGone ==
    \A r \in Slots :
        (req[r].pc = "delete_fn" /\ Steps(r))
            => ~Exists(apps, req[r].app, req[r].project_id)

\* C8: a delete that passed the existence check and the routes check deletes
\* the local record first and invokes apps.delete only afterwards, never while
\* the record is still stored; 200 is returned after both deletions
C8_LocalBeforeRemote == []C8_Order /\ [][C8_LocalGone]_vars

C8_Witness ==
    \E r \in Slots :
        /\ req[r].op = "delete"
        /\ req[r].status = 200
        /\ Len(req[r].calls) = 5

\* C9, in every state: a delete whose apps.show or routes.list raised has
\* returned the error's status (500 when it declares none) with that call as
\* its last, and has called neither Apps.delete nor apps.delete
C9_Aborted ==
    \A r \in Slots :
        LET q == req[r]
        IN  q.op = "delete"
                => \A i \in 1..Len(q.calls) :
                       (q.calls[i].fun \in {"apps.show", "routes.list"}
                            /\ q.calls[i].ex # NoError)
                           => /\ i = Len(q.calls)
                              /\ q.pc = "done"
                              /\ q.status = MappedStatus(q.calls[i].ex)
                              /\ ~HasCall(q, "Apps.delete")
                              /\ ~HasCall(q, "apps.delete")

\* C9, in every step: the step in which the fetch fails changes neither store
C9_Kept ==
    \A r \in Slots :
        (/\ req[r].pc \in {"delete_show", "delete_routes"}
         /\ Steps(r)
         /\ LastCall(req'[r]).ex # NoError)
            => /\ apps' = apps
               /\ fn_apps' = fn_apps

\* C9: when apps.show or routes.list fails in delete, delete returns the
\* remote error's status (500 when absent) and deletes neither the local
\* record nor the remote app
C9_FetchFailure == []C9_Aborted /\ [][C9_Kept]_vars

C9_Witness ==
    \E r \in Slots :
        /\ req[r].op = "delete"
        /\ LastCall(req[r]) = Call("routes.list", req[r].app, ConnectionError)
        /\ req[r].status = 500
        /\ Exists(apps, req[r].app, req[r].project_id)
        /\ fn_apps[req[r].app].exists

\* C10, in every step: no step of an update changes the registry
C10_Frame ==
    \A r \in Slots :
        (req'[r].op = "update" /\ Steps(r)) => apps' = apps

\* C10, in every state: the view of a successful update shows the fields of
\* the stored record of (project_id, app), none of them taken from the body
C10_View ==
    \A r \in Slots :
        LET q == req[r]
        IN  (q.op = "update" /\ q.status = 200)
                => /\ q.stored_app.name = q.app
                   /\ q.stored_app.project_id = q.project_id
                   /\ q.body.app.name = q.stored_app.name
                   /\ q.body.app.project_id = q.stored_app.project_id
                   /\ q.body.app.description = q.stored_app.description
                   /\ q.body.app.name # q.data.app.name
                   /\ q.body.app.description # q.data.app.description

\* C10: update never changes the registry, whatever its outcome and whatever
\* the body holds; on success the local fields of the view are those of the
\* stored record, not of the body
C10_UpdateKeepsRegistry == []C10_View /\ [][C10_Frame]_vars

C10_Witness ==
    \E r \in Slots :
        /\ req[r].op = "update"
        /\ req[r].status = 200
        /\ req[r].data.app.description = "changed"
        /\ req[r].body.app.description = "custom"
        /\ fn_apps[req[r].app].config = "c1"

\* two requests are creates of the same (project_id, derived name)
SameCreate(a, b) ==
    /\ a # b
    /\ req[a].op = "create"
    /\ req[b].op = "create"
    /\ req[a].project_id = req[b].project_id
    /\ req[a].app = req[b].app

\* C11, in every state: a create answers 409 only in the step of its check
C11_CheckedOnce ==
    \A r \in Slots :
        (req[r].op = "create" /\ req[r].status = 409)
            => req[r].calls = <<Call("Apps.exists", req[r].app, NoError)>>

\* C11, in every step: a create that passed its check does not look at the
\* registry again: when its Apps.save returns, a record has been appended and
\* it answers 200, also when another request stored the same (project_id,
\* name) since the check
C11_SavesAnyway ==
    \A r \in Slots :
        (/\ req[r].pc = "create_save"
         /\ Steps(r)
         /\ LastCall(req'[r]).ex = NoError)
            => /\ apps' = Append(apps, req'[r].stored_app)
               /\ req'[r].stored_app.name = req[r].app
               /\ req'[r].stored_app.project_id = req[r].project_id
               /\ req'[r].status = 200

\* C11: two concurrent creates of the same (project_id, name) can both pass the
\* existence check before either writes: nothing after the check stops the
\* second one, so both invoke apps.create for the same derived name, both save
\* a record and neither returns 409
C11_CreateRace == []C11_CheckedOnce /\ [][C11_SavesAnyway]_vars

C11_Witness ==
    \E a, b \in Slots :
        /\ SameCreate(a, b)
        /\ req[a].status = 200
        /\ req[b].status = 200
        /\ HasCall(req[a], "apps.create")
        /\ HasCall(req[b], "apps.create")
        /\ Len(FindBy(apps, req[a].project_id, req[a].app)) = 2

\* C12, in every state: in get and update the existence check guarantees that
\* the load finds a record: a request that reached its Apps.find_by got a
\* non-empty result, so .pop() never fails there, also when another request
\* (a delete of the same app) ran between the check and the load
C12_LoadFinds ==
    \A r \in Slots :
        (/\ req[r].op \in {"get", "update"}
         /\ HasCall(req[r], "Apps.exists")
         /\ LastCall(req[r]).fun = "Apps.find_by")
            => req[r].pc # "raised"

\* a RemoteFunctionApp named n with no record of that name in the registry
RemoteOnly(table, platform, n) ==
    /\ platform[n].exists
    /\ \A i \in 1..Len(table) : table[i].name # n

\* a record named n in the registry with no RemoteFunctionApp of that name
LocalOnly(table, platform, n) ==
    /\ ~platform[n].exists
    /\ \E i \in 1..Len(table) : table[i].name = n

\* C13, in every step: a partial state opens only between the two steps of a
\* create or of a delete: a remote app without record begins when a create's
\* apps.create or a delete's Apps.delete returns, a record without remote app
\* begins when the apps.delete of a delete returns, the request's own record
\* being gone already
C13_Opens ==
    \A n \in AppNames :
        /\ (~RemoteOnly(apps, fn_apps, n) /\ RemoteOnly(apps', fn_apps', n))
              => \E r \in Slots :
                    /\ req[r].app = n
                    /\ \/ req[r].pc = "create_fn" /\ req'[r].pc = "create_save"
                       \/ req[r].pc = "delete_local" /\ req'[r].pc = "delete_fn"
        /\ (~LocalOnly(apps, fn_apps, n) /\ LocalOnly(apps', fn_apps', n))
              => \E r \in Slots :
                    /\ req[r].app = n
                    /\ req[r].pc = "delete_fn"
                    /\ req'[r].pc = "done"
                    /\ ~Exists(apps, n, req[r].project_id)

\* C13: both partial states are reachable through the controller's operations,
\* a record without RemoteFunctionApp and a RemoteFunctionApp without record,
\* and they open between the two steps of create or of delete
C13_PartialStates == [][C13_Opens]_vars

\* no request in flight, one name remote only and another local only
C13_Witness ==
    /\ \A r \in Slots : req[r].pc = "idle"
    /\ \E n, m \in AppNames :
          /\ RemoteOnly(apps, fn_apps, n)
          /\ LocalOnly(apps, fn_apps, m)

\* C14, in every state: a list that returned answers 200 with one merged view
\* per record the registry returned for its project_id, in the registry's
\* order, after one apps.show per record in that order; with no record the
\* list is empty and Apps.find_by is the only call
C14_Listed ==
    \A r \in Slots :
        (req[r].op = "list" /\ req[r].pc = "done")
            => LET q == req[r]
                   n == Len(q.stored_apps)
               IN  /\ q.status = 200
                   /\ q.stored_apps = FindByProject(apps, q.project_id)
                   /\ \A i \in 1..n : q.stored_apps[i].project_id = q.project_id
                   /\ Len(q.body.apps) = n
                   /\ \A i \in 1..n :
                         q.body.apps[i] =
                             AppView(q.stored_apps[i],
                                     FnAppObject(fn_apps, q.stored_apps[i].name))
                   /\ Len(q.calls) = n + 1
                   /\ q.calls[1] = Call("Apps.find_by", q.project_id, NoError)
                   /\ \A i \in 1..n :
                         q.calls[i + 1] =
                             Call("apps.show", q.stored_apps[i].name, NoError)

\* C14, in every step: no step of a list changes the registry or the platform
C14_ReadOnly ==
    \A r \in Slots :
        (req'[r].op = "list" /\ req'[r] # req[r])
            => apps' = apps /\ fn_apps' = fn_apps

\* C14: list returns 200 with exactly one merged view per record of the
\* project, in registry order, one apps.show per record in that order, the
\* empty list without remote call for no record, and never modifies a store
C14_ListViews == []C14_Listed /\ [][C14_ReadOnly]_vars

\* a list of two records of different names has returned
C14_Witness ==
    \E r \in Slots :
        /\ req[r].op = "list"
        /\ req[r].pc = "done"
        /\ Len(req[r].body.apps) = 2
        /\ req[r].body.apps[1].name # req[r].body.apps[2].name

\* C15, in every state: within one project, requests handled one at a time,
\* a record named n in the registry implies a RemoteFunctionApp named n, in
\* the intermediate states and after a failed remote or registry call too
C15_LocalImpliesRemote ==
    \A i \in 1..Len(apps) : fn_apps[apps[i].name].exists

\* a delete failed between its two steps while another record is stored
C15_Witness ==
    /\ apps # <<>>
    /\ \E r \in Slots :
          /\ req[r].op = "delete"
          /\ req[r].pc = "raised"
          /\ LastCall(req[r]).fun = "apps.delete"
          /\ RemoteOnly(apps, fn_apps, req[r].app)

\* C16, in every state: two records of different projects have different
\* remote app names
C16_NamesDiffer ==
    \A i, j \in 1..Len(apps) :
        apps[i].project_id # apps[j].project_id => apps[i].name # apps[j].name

\* C16, in every step: a step of a delete or an update issued for one project
\* leaves the RemoteFunctionApp behind every record of another project as it is
C16_OtherRemoteKept ==
    \A r \in Slots :
        (req[r].op \in {"delete", "update"} /\ Steps(r))
            => \A i \in 1..Len(apps) :
                  apps[i].project_id # req[r].project_id
                      => fn_apps'[apps[i].name] = fn_apps[apps[i].name]

\* C16: operations issued for one project never affect the remote app that
\* backs a record of a different project, the remote names of records of
\* different projects being different
C16_Isolation == []C16_NamesDiffer /\ [][C16_OtherRemoteKept]_vars

====
